---- MODULE Spec2Model ----
(***************************************************************************)
(* A model of the AI scoring server.                                       *)
(*                                                                         *)
(*   Part I   the stream runner: KafkaService.consume / produce and the    *)
(*            Stats counters (app/services/kafka_service.py, stats.py).    *)
(*   Part II  the wallet scoring pipeline: DexModel                        *)
(*            (app/models/dex_model.py), as operators over exact           *)
(*            rationals, applied to wallet messages drawn from a bounded   *)
(*            set.                                                         *)
(***************************************************************************)
EXTENDS Integers, Sequences, FiniteSets, TLC

VARIABLES
    \* ---- Part I: stream runner ----
    inbound,        \* messages on the consume topic not yet fetched (offsets)
    nextOffset,     \* offset the next arriving message gets
    pc,             \* position of the consume() coroutine
    msg,            \* the message consume() holds (its offset), or NoOffset
    output,         \* the dict consume() built for produce(), or NoMsg
    inflight,       \* records handed to the producer and not yet resolved
    sendResult,     \* how the awaited send_and_wait ended: pending/acked/failed
    outbound,       \* the produce topic: delivered records, in log order
    stats,          \* the Stats counters
    consumedLog,    \* history: offsets in the order consume() fetched them
    attempts,       \* history: offsets for which a send was attempted
    failedLog,      \* history: offsets whose scoring raised
    consumerFault,  \* the consumer iterator raised (transport fault)
    \* ---- Part II: scoring pipeline ----
    wallet_data,    \* the wallet message under test
    now1,           \* wall clock of the first run
    now2,           \* wall clock of the second run
    result1,        \* what process_wallet gave on the first run, or NotRun
    result2,        \* what process_wallet gave on the second run, or NotRun
    complete,       \* what process_wallet_complete gave inside the first run
    \* ---- generate_user_tags on its own ----
    lp_features,    \* the lp_features argument
    swap_features,  \* the swap_features argument
    user_tags,      \* the returned tag list, once the call was made
    \* ---- KafkaService.stop ----
    stopPc,         \* position of the stop() coroutine
    consumerClosed, \* consumer.stop() was called: the iterator yields no more
    producerClosed, \* producer.stop() was called: new sends are refused
    consumedAtStop, \* history: messages consumed when the consumer was closed
    inflightAtStop, \* history: the records in flight when stop() was called
    rejected,       \* history: offsets whose send a closed producer refused
    \* ---- Stats.snapshot / Stats.reset in another context ----
    lock,           \* holder of Stats.lock: free, snapshot or reset
    surfaceIdx,     \* counters the holder has read (snapshot) or zeroed (reset)
    snap,           \* the dict snapshot() is building, or last returned
    snapReturned,   \* snap is the value the last snapshot() returned
    resetCalled     \* history: reset() was called at least once

runnerVars == <<inbound, nextOffset, pc, msg, output, inflight, sendResult,
                outbound, stats, consumedLog, attempts, failedLog, consumerFault>>
walletVars == <<wallet_data, now1, now2, result1, result2, complete>>
tagVars == <<lp_features, swap_features, user_tags>>
stopVars == <<stopPc, consumerClosed, producerClosed, consumedAtStop,
              inflightAtStop, rejected>>
surfaceVars == <<lock, surfaceIdx, snap, snapReturned, resetCalled>>
vars == <<runnerVars, walletVars, tagVars, stopVars, surfaceVars>>
\* What the stream runner's steps, and the pipeline's, leave alone.
besideRunner == <<walletVars, tagVars, stopVars, surfaceVars>>
besideWallet == <<runnerVars, tagVars, stopVars, surfaceVars>>

(***************************************************************************)
(* Part I.  The stream runner                                              *)
(***************************************************************************)

\* Number of messages the environment puts on the consume topic.
MaxMsgs == 3

None == "None"
\* consume() holds no message / no output dict.
NoOffset == 0 - 1
NoMsg == [offset |-> NoOffset, value |-> [wallet |-> None, score |-> None]]

\* Stats.__init__: all four counters start at 0.
StatsInit ==
    [total_consumed |-> 0, total_scored |-> 0, total_failed |-> 0, total_produced |-> 0]

\* A counter incremented: stats.<field> += 1.
Incr(field) == [stats EXCEPT ![field] = @ + 1]

\* The dict consume() hands to produce(): {"wallet": ..., "score": ...}.
\* Inbound messages carry "wallet_address", so .get("wallet") is None; the
\* offset is kept beside the dict to tell the records apart on the topic.
BuildOutput(offset) ==
    [offset |-> offset, value |-> [wallet |-> None, score |-> "score"]]

\* What the call self.model.score_wallet(wallet_data) can do: dex_model.py
\* defines no score_wallet, so both outcomes of the call are kept.
ScoreWalletOutcomes == {"returned", "raised"}

RunnerInit ==
    /\ inbound = <<>>
    /\ nextOffset = 0
    /\ pc = "await_msg"
    /\ msg = NoOffset
    /\ output = NoMsg
    /\ inflight = {}
    /\ sendResult = "none"
    /\ outbound = <<>>
    /\ stats = StatsInit
    /\ consumedLog = <<>>
    /\ attempts = <<>>
    /\ failedLog = <<>>
    /\ consumerFault = FALSE

\* The environment publishes a wallet message on the consume topic.
Arrive ==
    /\ nextOffset < MaxMsgs
    /\ inbound' = Append(inbound, nextOffset)
    /\ nextOffset' = nextOffset + 1
    /\ UNCHANGED <<besideRunner, pc, msg, output, inflight, sendResult, outbound, stats,
                   consumedLog, attempts, failedLog, consumerFault>>

\* async for msg in self.consumer: ...; stats.total_consumed += 1
Consume ==
    /\ pc = "await_msg"
    /\ inbound # <<>>
    /\ msg' = Head(inbound)
    /\ inbound' = Tail(inbound)
    /\ stats' = Incr("total_consumed")
    /\ consumedLog' = Append(consumedLog, Head(inbound))
    /\ pc' = "score"
    /\ UNCHANGED <<besideRunner, nextOffset, output, inflight, sendResult, outbound,
                   attempts, failedLog, consumerFault>>

\* score = self.model.score_wallet(wallet_data) returns; output is built and
\* produce(output) is entered.
ScoreReturn ==
    /\ pc = "score"
    /\ "returned" \in ScoreWalletOutcomes
    /\ output' = BuildOutput(msg)
    /\ pc' = "send"
    /\ UNCHANGED <<besideRunner, inbound, nextOffset, msg, inflight, sendResult, outbound,
                   stats, consumedLog, attempts, failedLog, consumerFault>>

\* Mutant: the failure is not counted.
CountFailureDropped == stats

\* Mutant: the except clause counts the message as scored as well.
CountFailureAlsoScored ==
    [stats EXCEPT !.total_failed = @ + 1, !.total_scored = @ + 1]

\* except Exception: stats.total_failed += 1
CountFailure == Incr("total_failed")

\* Mutant: the scoring error escapes the inner try and ends the loop.
AfterScoringErrorEscapes == "done"

\* Where consume() stands after the inner except clause has run.
AfterScoringError == "await_msg"

\* The inner try raises before produce(): except Exception logs and counts
\* the failure; nothing is handed to the producer.
ScoreRaise ==
    /\ pc = "score"
    /\ "raised" \in ScoreWalletOutcomes
    /\ stats' = CountFailure
    /\ failedLog' = Append(failedLog, msg)
    /\ msg' = NoOffset
    /\ pc' = AfterScoringError
    /\ UNCHANGED <<besideRunner, inbound, nextOffset, output, inflight, sendResult, outbound,
                   consumedLog, attempts, consumerFault>>

\* Mutant: the send is not awaited (producer.send instead of send_and_wait).
AfterSendStartNoWait == "count_scored"

\* Where produce() stands once the record is handed to the producer:
\* send_and_wait suspends the coroutine until the send is resolved.
AfterSendStart == "await_ack"

\* produce(): self.producer.send_and_wait(topic, message) is called.
SendStart ==
    /\ pc = "send"
    /\ inflight' = inflight \cup {output}
    /\ attempts' = Append(attempts, output.offset)
    /\ sendResult' = "pending"
    /\ pc' = AfterSendStart
    /\ UNCHANGED <<besideRunner, inbound, nextOffset, msg, output, outbound, stats,
                   consumedLog, failedLog, consumerFault>>

\* The transport appends one of the records it holds to the produce topic.
Deliver ==
    \E m \in inflight :
        /\ inflight' = inflight \ {m}
        /\ outbound' = Append(outbound, m)
        /\ sendResult' = IF output # NoMsg /\ m = output THEN "acked" ELSE sendResult
        /\ UNCHANGED <<besideRunner, inbound, nextOffset, pc, msg, output, stats,
                       consumedLog, attempts, failedLog, consumerFault>>

\* The transport gives up on a record it holds (timeout, broker error).
TransportFail ==
    \E m \in inflight :
        /\ inflight' = inflight \ {m}
        /\ sendResult' = IF output # NoMsg /\ m = output THEN "failed" ELSE sendResult
        /\ UNCHANGED <<besideRunner, inbound, nextOffset, pc, msg, output, outbound, stats,
                       consumedLog, attempts, failedLog, consumerFault>>

\* send_and_wait returns: stats.total_produced += 1 and produce() returns.
SendAck ==
    /\ pc = "await_ack"
    /\ sendResult = "acked"
    /\ stats' = Incr("total_produced")
    /\ sendResult' = "none"
    /\ pc' = "count_scored"
    /\ UNCHANGED <<besideRunner, inbound, nextOffset, msg, output, inflight, outbound,
                   consumedLog, attempts, failedLog, consumerFault>>

\* send_and_wait raises: produce() logs it and returns normally.
SendFail ==
    /\ pc = "await_ack"
    /\ sendResult = "failed"
    /\ sendResult' = "none"
    /\ pc' = "count_scored"
    /\ UNCHANGED <<besideRunner, inbound, nextOffset, msg, output, inflight, outbound, stats,
                   consumedLog, attempts, failedLog, consumerFault>>

\* Back in consume() after produce(): stats.total_scored += 1.
CountScored ==
    /\ pc = "count_scored"
    /\ stats' = Incr("total_scored")
    /\ msg' = NoOffset
    /\ output' = NoMsg
    /\ pc' = "await_msg"
    /\ UNCHANGED <<besideRunner, inbound, nextOffset, inflight, sendResult, outbound,
                   consumedLog, attempts, failedLog, consumerFault>>

\* The consumer iterator itself raises: the outer except logs
\* "Consumer crashed" and consume() returns.
ConsumerFault ==
    /\ pc = "await_msg"
    /\ consumerFault' = TRUE
    /\ pc' = "done"
    /\ UNCHANGED <<besideRunner, inbound, nextOffset, msg, output, inflight, sendResult,
                   outbound, stats, consumedLog, attempts, failedLog>>

RunnerNext ==
    \/ Arrive
    \/ Consume
    \/ ScoreReturn
    \/ ScoreRaise
    \/ SendStart
    \/ Deliver
    \/ TransportFail
    \/ SendAck
    \/ SendFail
    \/ CountScored
    \/ ConsumerFault

\* The loop waits for the next inbound message and nothing is in flight.
Quiescent == pc = "await_msg" /\ inflight = {}

(***************************************************************************)
(* Part II.  The wallet scoring pipeline                                   *)
(*                                                                         *)
(* Python floats are modelled as exact rationals <<n, d>> in lowest terms  *)
(* with d > 0; counts and timestamps are integers.                         *)
(***************************************************************************)

RECURSIVE Gcd(_, _)
Gcd(a, b) == IF b = 0 THEN a ELSE Gcd(b, a % b)

Abs(x) == IF x < 0 THEN -x ELSE x

\* The rational n/d in lowest terms (d # 0).
R(n, d) ==
    LET g == Gcd(Abs(n), Abs(d))
        s == IF d < 0 THEN -1 ELSE 1
    IN  <<(s * n) \div g, (s * d) \div g>>

RInt(n) == <<n, 1>>
RAdd(a, b) ==
    LET g == Gcd(a[2], b[2])
    IN  R(a[1] * (b[2] \div g) + b[1] * (a[2] \div g), (a[2] \div g) * b[2])
RSub(a, b) == RAdd(a, <<-b[1], b[2]>>)
RMul(a, b) ==
    LET g1 == Gcd(Abs(a[1]), b[2])
        g2 == Gcd(Abs(b[1]), a[2])
    IN  R((a[1] \div g1) * (b[1] \div g2), (a[2] \div g2) * (b[2] \div g1))
RDiv(a, b) == RMul(a, IF b[1] < 0 THEN <<-b[2], -b[1]>> ELSE <<b[2], b[1]>>)
RLt(a, b) == RSub(a, b)[1] < 0
RLe(a, b) == RSub(a, b)[1] <= 0
\* Python's min(a, b) and max(a, b)
RMin(a, b) == IF RLt(b, a) THEN b ELSE a
RMax(a, b) == IF RLt(a, b) THEN b ELSE a

RECURSIVE SumSeq(_)
SumSeq(s) == IF s = <<>> THEN 0 ELSE Head(s) + SumSeq(Tail(s))

RECURSIVE SelectBy(_, _)
\* The rows of s whose action is a, in order: df[df["action"] == a]
SelectBy(s, a) ==
    IF s = <<>> THEN <<>>
    ELSE IF Head(s).action = a THEN <<Head(s)>> \o SelectBy(Tail(s), a)
    ELSE SelectBy(Tail(s), a)

Range(s) == {s[i] : i \in DOMAIN s}
MinOf(S) == CHOOSE x \in S : \A y \in S : x <= y
MaxOf(S) == CHOOSE x \in S : \A y \in S : y <= x

\* ---- the wallet messages the pipeline is run on ----

\* Largest number of transactions in one wallet message.
MaxTx == 3

Day == 86400
\* A token sub-object {"amountUSD": a, "symbol": s}; a is an integer number
\* of dollars.
Leg(a, s) == [null |-> FALSE, numeric |-> TRUE, amountUSD |-> a, symbol |-> s]
\* A token sub-object whose amountUSD is a non-numeric string.
BadLeg(s) == [null |-> FALSE, numeric |-> FALSE, amountUSD |-> 0, symbol |-> s]
\* A sub-object that is missing or null.
NullLeg == [null |-> TRUE, numeric |-> TRUE, amountUSD |-> 0, symbol |-> ""]

\* A transaction: legA/legB stand for tokenIn/tokenOut of a swap and for
\* token0/token1 of a deposit or withdraw.
Tx(action, ts, pool, a, b) ==
    [action |-> action, timestamp |-> ts, poolId |-> pool, legA |-> a, legB |-> b]

\* Wall-clock readings (seconds) at which the pipeline runs.
Nows == {100 * Day, 110 * Day}

TxUniverse ==
    { Tx("deposit",  90 * Day, "poolA", Leg(250, "USDC"), Leg(250, "WETH")),
      Tx("withdraw", 95 * Day, "poolA", Leg(250, "USDC"), Leg(250, "WETH")),
      Tx("swap",     80 * Day, "poolB", Leg(1000, "USDC"), Leg(900, "WETH")),
      Tx("swap",     80 * Day + 1800, "poolA", Leg(60000, "DAI"), NullLeg),
      Tx("deposit",  200 * Day, "poolB", Leg(0, "USDC"), NullLeg),
      Tx("deposit",  85 * Day, "poolB", Leg(20000000, "USDC"), Leg(0, "WETH")),
      Tx("swap",     70 * Day, "poolA", BadLeg("USDC"), Leg(10, "WETH")),
      Tx("stake",    60 * Day, "poolC", NullLeg, NullLeg) }

RECURSIVE SeqsUpTo(_, _)
\* All sequences over S of length at most n.
SeqsUpTo(S, n) ==
    IF n = 0 THEN {<<>>}
    ELSE LET shorter == SeqsUpTo(S, n - 1)
         IN  shorter \cup {Append(q, x) : q \in shorter, x \in S}

Group(ptype, txs) == [protocolType |-> ptype, transactions |-> txs]

\* How a list of transactions is laid out in the message's "data" groups.
Layouts == {"dexes", "other", "other_then_dexes", "dexes_split", "no_groups"}

DataOf(layout, txs) ==
    CASE layout = "dexes" -> <<Group("dexes", txs)>>
      [] layout = "other" -> <<Group("lending", txs)>>
      [] layout = "other_then_dexes" -> <<Group("lending", txs), Group("dexes", txs)>>
      [] layout = "dexes_split" ->
            IF txs = <<>> THEN <<Group("dexes", <<>>), Group("dexes", <<>>)>>
            ELSE <<Group("dexes", <<Head(txs)>>), Group("dexes", Tail(txs))>>
      [] layout = "no_groups" -> <<>>

\* A wallet message that is a mapping.
WalletMessage(layout, txs) ==
    [mapping |-> TRUE, wallet_address |-> "0xabc", data |-> DataOf(layout, txs)]
\* A message that is not a mapping (a JSON list, a string, null).
NotAMapping == [mapping |-> FALSE, wallet_address |-> "", data |-> <<>>]

\* The sample message shipped with the tests: one swap, one deposit and one
\* withdraw in a single pool.
SAMPLE_WALLET_MESSAGE ==
    [mapping |-> TRUE,
     wallet_address |-> "0x742d35Cc6634C0532925a3b8D4C9db96590e4265",
     data |-> <<Group("dexes",
        <<Tx("swap", 1703980800, "0x88e6a0c2ddd26feeb64f039a2c41296fcb3f5640",
             Leg(1000, "USDC"), Leg(1000, "WETH")),
          Tx("deposit", 1703980900, "0x88e6a0c2ddd26feeb64f039a2c41296fcb3f5640",
             Leg(500, "USDC"), Leg(500, "WETH")),
          Tx("withdraw", 1703981800, "0x88e6a0c2ddd26feeb64f039a2c41296fcb3f5640",
             Leg(250, "USDC"), Leg(250, "WETH"))>>)>>]

\* The features the tests expect for the sample message.
EXPECTED_FEATURES ==
    [total_deposit_usd |-> 500, total_withdraw_usd |-> 500, num_deposits |-> 1,
     num_withdraws |-> 1, total_swap_volume |-> 1000, num_swaps |-> 1,
     unique_pools |-> 1]

WalletMessages ==
    {WalletMessage(l, txs) : l \in Layouts, txs \in SeqsUpTo(TxUniverse, MaxTx)}
        \cup {NotAMapping, SAMPLE_WALLET_MESSAGE}

\* ---- results of Python calls: a value, or an exception ----
Ok(v) == [raised |-> FALSE, value |-> v, error |-> ""]
Raise(e) == [raised |-> TRUE, value |-> <<>>, error |-> e]

\* ---- preprocess_dex_transactions ----

\* float(x or 0.0): raises ValueError on a non-numeric string.
IsNumeric(leg) == leg.numeric
LegAmount(leg) == IF leg.null THEN 0 ELSE leg.amountUSD
LegSymbol(leg) == IF leg.null THEN "" ELSE leg.symbol

\* Mutant: a swap's amount taken as the sum of its legs.
SwapAmountSum(tx) == LegAmount(tx.legA) + LegAmount(tx.legB)

\* row["amount_usd"] of a swap: max of the two legs
SwapAmount(tx) ==
    IF LegAmount(tx.legA) >= LegAmount(tx.legB) THEN LegAmount(tx.legA)
    ELSE LegAmount(tx.legB)
\* row["amount_usd"] of a deposit or withdraw: sum of the two legs
LpAmount(tx) == LegAmount(tx.legA) + LegAmount(tx.legB)

\* The row built for one transaction (the float() calls have succeeded).
RowOf(tx) ==
    [action |-> tx.action, timestamp |-> tx.timestamp, pool_id |-> tx.poolId,
     has_amount |-> tx.action \in {"swap", "deposit", "withdraw"},
     amount_usd |-> IF tx.action = "swap" THEN SwapAmount(tx)
                    ELSE IF tx.action \in {"deposit", "withdraw"} THEN LpAmount(tx)
                    ELSE 0,
     symA |-> IF tx.action \in {"swap", "deposit", "withdraw"} THEN LegSymbol(tx.legA) ELSE "",
     symB |-> IF tx.action \in {"swap", "deposit", "withdraw"} THEN LegSymbol(tx.legB) ELSE ""]

\* Whether building the row raises (float() of a non-numeric amountUSD).
RowRaises(tx) ==
    /\ tx.action \in {"swap", "deposit", "withdraw"}
    /\ \/ ~tx.legA.null /\ ~IsNumeric(tx.legA)
       \/ ~tx.legB.null /\ ~IsNumeric(tx.legB)

\* Mutant: the protocolType filter is missing.
IsDexGroupAny(g) == TRUE

\* Whether a group of the message is read: protocolType == "dexes".
IsDexGroup(g) == g.protocolType = "dexes"

RECURSIVE DexTransactions(_)
\* The transactions of the dexes groups of data, in input order.
DexTransactions(data) ==
    IF data = <<>> THEN <<>>
    ELSE (IF IsDexGroup(Head(data)) THEN Head(data).transactions ELSE <<>>)
            \o DexTransactions(Tail(data))

PreprocessDexTransactions(wd) ==
    IF ~wd.mapping THEN Raise("AttributeError")
    ELSE LET txs == DexTransactions(wd.data)
         IN  IF \E i \in DOMAIN txs : RowRaises(txs[i]) THEN Raise("ValueError")
             ELSE Ok([i \in DOMAIN txs |-> RowOf(txs[i])])

\* ---- LP features and score ----

\* Mutant: every deposit is held until the current time.
HoldingEndNow(t, withdraws, current_time) == current_time

\* Mutant: a withdraw at the deposit's own timestamp is matched (>= for >).
HoldingEndInclusive(t, withdraws, current_time) ==
    LET future == {w.timestamp : w \in {x \in Range(withdraws) : x.timestamp >= t}}
    IN  IF future # {} THEN MinOf(future) ELSE current_time

\* The earliest withdraw timestamp strictly after t, or the current time.
HoldingEnd(t, withdraws, current_time) ==
    LET future == {w.timestamp : w \in {x \in Range(withdraws) : x.timestamp > t}}
    IN  IF future # {} THEN MinOf(future) ELSE current_time

\* calculate_holding_time: mean holding time of the deposits, in days.
CalculateHoldingTime(deposits, withdraws, current_time) ==
    IF deposits = <<>> THEN RInt(0)
    ELSE LET held == [i \in DOMAIN deposits |->
                        HoldingEnd(deposits[i].timestamp, withdraws, current_time)
                            - deposits[i].timestamp]
         IN  R(SumSeq(held), Day * Len(deposits))

Amounts(rows) == [i \in DOMAIN rows |-> rows[i].amount_usd]
Timestamps(rows) == {rows[i].timestamp : i \in DOMAIN rows}

\* Mutant: without deposits everything counts as withdrawn.
WithdrawRatioOne(total_withdraw_usd, total_deposit_usd) ==
    IF total_deposit_usd > 0 THEN R(total_withdraw_usd, total_deposit_usd) ELSE RInt(1)

\* withdraw_ratio: total_withdraw_usd / total_deposit_usd, 0 without deposits
WithdrawRatio(total_withdraw_usd, total_deposit_usd) ==
    IF total_deposit_usd > 0 THEN R(total_withdraw_usd, total_deposit_usd) ELSE RInt(0)

\* calculate_lp_features (df not empty)
CalculateLpFeatures(df, current_time) ==
    LET deposits == SelectBy(df, "deposit")
        withdraws == SelectBy(df, "withdraw")
        td == SumSeq(Amounts(deposits))
        tw == SumSeq(Amounts(withdraws))
    IN  [total_deposit_usd |-> td,
         total_withdraw_usd |-> tw,
         num_deposits |-> Len(deposits),
         num_withdraws |-> Len(withdraws),
         withdraw_ratio |-> WithdrawRatio(tw, td),
         avg_hold_time_days |-> CalculateHoldingTime(deposits, withdraws, current_time),
         account_age_days |-> R(MaxOf(Timestamps(df)) - MinOf(Timestamps(df)), Day),
         unique_pools |-> Cardinality({df[i].pool_id : i \in DOMAIN df})]

\* holding_score = min(avg_hold_time_days / 30.0 * 150.0, 150.0)
HoldingScore(avg_hold_time_days) ==
    RMin(RMul(RDiv(avg_hold_time_days, RInt(30)), RInt(150)), RInt(150))

\* retention_score = max(0.0, (1.0 - withdraw_ratio) * 250.0)
RetentionScore(withdraw_ratio) ==
    RMax(RInt(0), RMul(RSub(RInt(1), withdraw_ratio), RInt(250)))

\* calculate_lp_score: the breakdown, with total_lp_score
CalculateLpScore(f) ==
    LET volume_score == RMin(RMul(R(f.total_deposit_usd, 10000), RInt(300)), RInt(300))
        frequency_score == RMin(RInt(f.num_deposits * 20), RInt(200))
        retention_score == RetentionScore(f.withdraw_ratio)
        holding_score == HoldingScore(f.avg_hold_time_days)
        diversity_score == RMin(RInt(f.unique_pools * 20), RInt(100))
    IN  [volume_score |-> volume_score,
         frequency_score |-> frequency_score,
         retention_score |-> retention_score,
         holding_score |-> holding_score,
         diversity_score |-> diversity_score,
         total_lp_score |->
            RAdd(RAdd(RAdd(RAdd(volume_score, frequency_score), retention_score),
                      holding_score), diversity_score)]

\* ---- swap features and score ----

StableTokens == {"USDC", "USDT", "DAI", "LUSD", "USDP", "TUSD", "FRAX"}

\* _token_diversity (swaps not empty)
TokenDiversity(swaps) ==
    LET all_tokens == {swaps[i].symA : i \in DOMAIN swaps}
                        \cup {swaps[i].symB : i \in DOMAIN swaps}
        stable_count == Cardinality(all_tokens \cap StableTokens)
        volatile_count == Cardinality(all_tokens) - stable_count
        diversity_score == stable_count * 10 + volatile_count * 15
    IN  IF diversity_score < 150 THEN diversity_score ELSE 150

\* _swap_frequency: bucket of the mean gap, in hours, between successive swaps
SwapFrequency(swaps) ==
    IF Len(swaps) < 2 THEN 0
    ELSE LET ts == Timestamps(swaps)
             avg == R(MaxOf(ts) - MinOf(ts), 3600 * (Len(swaps) - 1))
         IN  IF RLe(avg, RInt(1)) THEN 100
             ELSE IF RLe(avg, RInt(24)) THEN 80
             ELSE IF RLe(avg, RInt(168)) THEN 60
             ELSE IF RLe(avg, RInt(720)) THEN 40
             ELSE 20

\* calculate_swap_features (df not empty)
CalculateSwapFeatures(df) ==
    LET swaps == SelectBy(df, "swap")
    IN  IF swaps = <<>> THEN
            [total_swap_volume |-> 0, num_swaps |-> 0, unique_pools_swapped |-> 0,
             avg_swap_size |-> RInt(0), token_diversity_score |-> 0,
             swap_frequency_score |-> 0]
        ELSE
            [total_swap_volume |-> SumSeq(Amounts(swaps)),
             num_swaps |-> Len(swaps),
             unique_pools_swapped |-> Cardinality({swaps[i].pool_id : i \in DOMAIN swaps}),
             avg_swap_size |-> R(SumSeq(Amounts(swaps)), Len(swaps)),
             token_diversity_score |-> TokenDiversity(swaps),
             swap_frequency_score |-> SwapFrequency(swaps)]

\* calculate_swap_score: the breakdown, with total_swap_score
CalculateSwapScore(f) ==
    LET volume_score == RMin(RMul(R(f.total_swap_volume, 50000), RInt(250)), RInt(250))
        frequency_score == RMin(RInt(f.num_swaps * 10), RInt(200))
        diversity_score == RInt(f.token_diversity_score)
        activity_score == RInt(f.swap_frequency_score)
        pool_diversity_score == RMin(RInt(f.unique_pools_swapped * 25), RInt(100))
    IN  [volume_score |-> volume_score,
         frequency_score |-> frequency_score,
         diversity_score |-> diversity_score,
         activity_score |-> activity_score,
         pool_diversity_score |-> pool_diversity_score,
         total_swap_score |->
            RAdd(RAdd(RAdd(RAdd(volume_score, frequency_score), diversity_score),
                      activity_score), pool_diversity_score)]

\* ---- tags, final score, pipeline ----

\* Mutant: the diversity chain written as two independent ifs.
DiversityTagsBoth(token_diversity_score, unique_pools) ==
    (IF token_diversity_score > 100 THEN <<"Diversified Trader">> ELSE <<>>)
        \o (IF unique_pools > 3 THEN <<"Multi-Pool LP">> ELSE <<>>)

\* The diversity chain: if ... > 100 / elif unique_pools > 3.
DiversityTags(token_diversity_score, unique_pools) ==
    IF token_diversity_score > 100 THEN <<"Diversified Trader">>
    ELSE IF unique_pools > 3 THEN <<"Multi-Pool LP">> ELSE <<>>

\* generate_user_tags: one if/elif chain per category, in order.
GenerateUserTags(lp, sw) ==
    LET td == lp.total_deposit_usd
        ht == lp.avg_hold_time_days
        sv == sw.total_swap_volume
        lpTag == IF td > 100000 THEN <<"Whale LP">>
                 ELSE IF td > 10000 THEN <<"Large LP">>
                 ELSE IF td > 1000 THEN <<"Medium LP">>
                 ELSE IF td > 0 THEN <<"Small LP">> ELSE <<>>
        holdTag == IF RLt(RInt(90), ht) THEN <<"Long-term Holder">>
                   ELSE IF RLt(RInt(30), ht) THEN <<"Medium-term Holder">>
                   ELSE IF RLt(RInt(0), ht) THEN <<"Short-term Holder">> ELSE <<>>
        swapTag == IF sv > 500000 THEN <<"Whale Trader">>
                   ELSE IF sv > 50000 THEN <<"Large Trader">>
                   ELSE IF sv > 5000 THEN <<"Active Trader">>
                   ELSE IF sv > 0 THEN <<"Casual Trader">> ELSE <<>>
        freqTag == IF sw.num_swaps > 100 THEN <<"High Frequency Trader">>
                   ELSE IF sw.num_swaps > 20 THEN <<"Regular Trader">> ELSE <<>>
        divTag == DiversityTags(sw.token_diversity_score, lp.unique_pools)
    IN  lpTag \o holdTag \o swapTag \o freqTag \o divTag

\* final_score = lp_score * 0.6 + swap_score * 0.4
FinalScore(lp_score, swap_score) ==
    RAdd(RMul(lp_score, R(6, 10)), RMul(swap_score, R(4, 10)))

\* calculate_final_score: the merged feature mapping
CalculateFinalScore(lp_score, swap_score, lp, sw) ==
    [lp |-> lp, swap |-> sw,
     user_tags |-> GenerateUserTags(lp, sw),
     lp_score |-> lp_score,
     swap_score |-> swap_score,
     final_score |-> FinalScore(lp_score, swap_score)]

\* Error texts are kept as sequences of their pieces: an f-string is the
\* sequence of its literal part and the interpolated exception text.
NoValidTransactions == <<"No valid transactions found">>
NoError == <<>>

\* process_wallet_complete on a normalized row set: (final_score, features, df)
ProcessWalletComplete(df, current_time) ==
    IF df = <<>> THEN
        [final_score |-> RInt(0), error |-> NoValidTransactions, df |-> df]
    ELSE
        LET lp == CalculateLpFeatures(df, current_time)
            lpb == CalculateLpScore(lp)
            sw == CalculateSwapFeatures(df)
            swb == CalculateSwapScore(sw)
            f == CalculateFinalScore(lpb.total_lp_score, swb.total_swap_score, lp, sw)
        IN  [final_score |-> f.final_score, error |-> NoError, df |-> df,
             features |-> f, lp_breakdown |-> lpb, swap_breakdown |-> swb]

\* ---- payloads ----

\* Python values a payload slot can hold: a dict (possibly empty) or None.
PyDict(body) == [py |-> "dict", body |-> body]
PyNone == [py |-> "None", body |-> <<>>]
EmptyDict == PyDict(<<>>)
Keys(x) == IF x.py = "None" THEN {} ELSE DOMAIN x.body
IsNone(x) == x.py = "None"
\* A dict with at least one key.
Populated(x) == x.py = "dict" /\ Keys(x) # {}

\* _choose_timestamp: the earliest row timestamp, or the current time.
ChooseTimestamp(df, current_time) ==
    IF df # <<>> THEN MinOf(Timestamps(df)) ELSE current_time

\* f"{z:.18f}": the score as a fixed-point decimal string; the digits are
\* determined by z, which is kept in place of the string.
FormatZscore(z) == [fixed18 |-> z]

\* The failure payload of the "error" in features branch.
NoDataFailure(wd, c, current_time) ==
    PyDict([wallet_address |-> wd.wallet_address,
            error |-> c.error,
            timestamp |-> ChooseTimestamp(c.df, current_time),
            processing_time_ms |-> 0,
            categories |-> <<[category |-> "dexes", error |-> c.error,
                              transaction_count |-> Len(c.df)]>>])

\* The success payload.
SuccessPayload(wd, c, current_time) ==
    PyDict([wallet_address |-> wd.wallet_address,
            zscore |-> FormatZscore(c.final_score),
            timestamp |-> ChooseTimestamp(c.df, current_time),
            processing_time_ms |-> 0,
            categories |-> <<[category |-> "dexes", score |-> c.final_score,
                              transaction_count |-> Len(c.df),
                              features |->
                                [total_deposit_usd |-> c.features.lp.total_deposit_usd,
                                 total_withdraw_usd |-> c.features.lp.total_withdraw_usd,
                                 num_deposits |-> c.features.lp.num_deposits,
                                 num_withdraws |-> c.features.lp.num_withdraws,
                                 total_swap_volume |-> c.features.swap.total_swap_volume,
                                 num_swaps |-> c.features.swap.num_swaps,
                                 unique_pools |-> c.features.lp.unique_pools]]>>])

\* The failure payload built by the except clause from exception e.
ExceptionFailure(wd, e, current_time) ==
    PyDict([wallet_address |-> wd.wallet_address,
            error |-> <<"Exception during processing: ", e>>,
            timestamp |-> current_time,
            processing_time_ms |-> 0,
            categories |-> <<[category |-> "dexes", error |-> <<e>>,
                              transaction_count |-> 0]>>])

\* What a call returns: the pair (success, failure), or a propagated exception.
Returned(success, failure) ==
    [raised |-> FALSE, success |-> success, failure |-> failure, error |-> ""]
Propagated(e) ==
    [raised |-> TRUE, success |-> PyNone, failure |-> PyNone, error |-> e]

\* The except clause of process_wallet: wallet_data.get("wallet_address")
\* is evaluated again while the failure payload is built.
ExceptClause(wd, e, current_time) ==
    IF ~wd.mapping THEN Propagated("AttributeError")
    ELSE Returned(EmptyDict, ExceptionFailure(wd, e, current_time))

\* process_wallet
ProcessWallet(wd, current_time) ==
    LET pre == PreprocessDexTransactions(wd)
    IN  IF pre.raised THEN ExceptClause(wd, pre.error, current_time)
        ELSE LET c == ProcessWalletComplete(pre.value, current_time)
             IN  IF c.error # NoError THEN
                     Returned(EmptyDict, NoDataFailure(wd, c, current_time))
                 ELSE Returned(SuccessPayload(wd, c, current_time), PyNone)

NotRun == [notrun |-> TRUE]

\* The call z, features, df = cls.process_wallet_complete(wallet_data) inside
\* process_wallet: not made yet, raised, or returned value.
NotCalled == [called |-> FALSE, raised |-> FALSE, value |-> <<>>]
CompleteCall(wd, current_time) ==
    LET pre == PreprocessDexTransactions(wd)
    IN  IF pre.raised THEN [called |-> TRUE, raised |-> TRUE, value |-> <<>>]
        ELSE [called |-> TRUE, raised |-> FALSE,
              value |-> ProcessWalletComplete(pre.value, current_time)]

WalletIdle ==
    /\ wallet_data = NotAMapping
    /\ now1 = 0
    /\ now2 = 0
    /\ result1 = NotRun
    /\ result2 = NotRun
    /\ complete = NotCalled

\* A wallet message is given; process_wallet has not run on it yet.
WalletInit ==
    /\ wallet_data \in WalletMessages
    /\ now1 = 0
    /\ now2 = 0
    /\ result1 = NotRun
    /\ result2 = NotRun
    /\ complete = NotCalled

\* process_wallet(wallet_data) runs at wall-clock time t.
RunFirst ==
    /\ result1 = NotRun
    /\ \E t \in Nows :
        /\ now1' = t
        /\ result1' = ProcessWallet(wallet_data, t)
        /\ complete' = CompleteCall(wallet_data, t)
    /\ UNCHANGED <<besideWallet, wallet_data, now2, result2>>

\* process_wallet runs again on the same message, at the same or a later time.
RunAgain ==
    /\ result1 # NotRun
    /\ result2 = NotRun
    /\ \E t \in Nows :
        /\ t >= now1
        /\ now2' = t
        /\ result2' = ProcessWallet(wallet_data, t)
    /\ UNCHANGED <<besideWallet, wallet_data, now1, result1, complete>>

\* ---- KafkaService.stop beside the running loop ----

StopIdle ==
    /\ stopPc = "idle"
    /\ consumerClosed = FALSE
    /\ producerClosed = FALSE
    /\ consumedAtStop = 0
    /\ inflightAtStop = {}
    /\ rejected = <<>>

\* Mutant: stop() stops the producer first.
StopOrderReversed == <<"producer", "consumer">>

\* The order in which stop() awaits the two clients' stop().
StopOrder == <<"consumer", "producer">>

\* consume() is suspended (async for, send_and_wait) or has returned: the
\* event loop runs stop() only then.
LoopSuspended == pc \in {"await_msg", "await_ack", "done"}

\* c.stop() is called: the client is closed to further use from here on.
Close(c) ==
    /\ consumerClosed' = (consumerClosed \/ c = "consumer")
    /\ producerClosed' = (producerClosed \/ c = "producer")
    /\ consumedAtStop' = IF c = "consumer" THEN Len(consumedLog) ELSE consumedAtStop

\* await c.stop() can return: the producer's stop() returns once the sends
\* it holds are resolved.
Flushed(c) == c = "producer" => inflight = {}

\* stop() is called; it runs up to its first await.
StopCall ==
    /\ stopPc = "idle"
    /\ LoopSuspended
    /\ Close(StopOrder[1])
    /\ inflightAtStop' = inflight
    /\ stopPc' = "first"
    /\ UNCHANGED <<runnerVars, walletVars, tagVars, surfaceVars, rejected>>

\* The first await returns; stop() runs up to its second await.
StopFirstReturns ==
    /\ stopPc = "first"
    /\ LoopSuspended
    /\ Flushed(StopOrder[1])
    /\ Close(StopOrder[2])
    /\ stopPc' = "second"
    /\ UNCHANGED <<runnerVars, walletVars, tagVars, surfaceVars, inflightAtStop,
                   rejected>>

\* The second await returns; stop() logs and returns.
StopSecondReturns ==
    /\ stopPc = "second"
    /\ LoopSuspended
    /\ Flushed(StopOrder[2])
    /\ stopPc' = "returned"
    /\ UNCHANGED <<runnerVars, walletVars, tagVars, surfaceVars, consumerClosed,
                   producerClosed, consumedAtStop, inflightAtStop, rejected>>

\* async for msg in self.consumer: a closed consumer yields nothing.
ConsumeWhileOpen == ~consumerClosed /\ Consume

\* async for on a closed consumer: the iteration ends and consume() returns.
LoopEnds ==
    /\ pc = "await_msg"
    /\ consumerClosed
    /\ pc' = "done"
    /\ UNCHANGED <<besideRunner, inbound, nextOffset, msg, output, inflight,
                   sendResult, outbound, stats, consumedLog, attempts, failedLog,
                   consumerFault>>

\* produce(): send_and_wait on a closed producer raises at once; produce()
\* logs it and returns, and the record is never handed over.
SendUnlessClosed ==
    IF producerClosed THEN
        /\ pc = "send"
        /\ rejected' = Append(rejected, output.offset)
        /\ pc' = "count_scored"
        /\ UNCHANGED <<walletVars, tagVars, surfaceVars, stopPc, consumerClosed,
                       producerClosed, consumedAtStop, inflightAtStop, inbound,
                       nextOffset, msg, output, inflight, sendResult, outbound,
                       stats, consumedLog, attempts, failedLog, consumerFault>>
    ELSE SendStart

NextStop ==
    \/ Arrive
    \/ ConsumeWhileOpen
    \/ ScoreReturn
    \/ ScoreRaise
    \/ SendUnlessClosed
    \/ Deliver
    \/ TransportFail
    \/ SendAck
    \/ SendFail
    \/ CountScored
    \/ ConsumerFault
    \/ LoopEnds
    \/ StopCall
    \/ StopFirstReturns
    \/ StopSecondReturns

\* ---- Stats.snapshot and Stats.reset beside the running loop ----

SurfaceIdle ==
    /\ lock = "free"
    /\ surfaceIdx = 0
    /\ snap = StatsInit
    /\ snapReturned = FALSE
    /\ resetCalled = FALSE

\* The order in which snapshot() reads, and reset() zeroes, the counters.
FieldOrder == <<"total_consumed", "total_scored", "total_failed", "total_produced">>

\* snapshot(): with self.lock:
SnapshotEnter ==
    /\ lock = "free"
    /\ lock' = "snapshot"
    /\ surfaceIdx' = 0
    /\ snap' = StatsInit
    /\ snapReturned' = FALSE
    /\ UNCHANGED <<runnerVars, walletVars, tagVars, stopVars, resetCalled>>

\* snapshot(): the next counter is read into the dict.
SnapshotRead ==
    /\ lock = "snapshot"
    /\ surfaceIdx < Len(FieldOrder)
    /\ snap' = [snap EXCEPT ![FieldOrder[surfaceIdx + 1]] =
                              stats[FieldOrder[surfaceIdx + 1]]]
    /\ surfaceIdx' = surfaceIdx + 1
    /\ UNCHANGED <<runnerVars, walletVars, tagVars, stopVars, lock, snapReturned,
                   resetCalled>>

\* snapshot(): the dict is returned and the lock released.
SnapshotReturn ==
    /\ lock = "snapshot"
    /\ surfaceIdx = Len(FieldOrder)
    /\ lock' = "free"
    /\ surfaceIdx' = 0
    /\ snapReturned' = TRUE
    /\ UNCHANGED <<runnerVars, walletVars, tagVars, stopVars, snap, resetCalled>>

\* reset(): with self.lock:
ResetEnter ==
    /\ lock = "free"
    /\ lock' = "reset"
    /\ surfaceIdx' = 0
    /\ resetCalled' = TRUE
    /\ UNCHANGED <<runnerVars, walletVars, tagVars, stopVars, snap, snapReturned>>

\* reset(): the next counter is set to 0.
ResetWrite ==
    /\ lock = "reset"
    /\ surfaceIdx < Len(FieldOrder)
    /\ stats' = [stats EXCEPT ![FieldOrder[surfaceIdx + 1]] = 0]
    /\ surfaceIdx' = surfaceIdx + 1
    /\ UNCHANGED <<walletVars, tagVars, stopVars, lock, snap, snapReturned,
                   resetCalled, inbound, nextOffset, pc, msg, output, inflight,
                   sendResult, outbound, consumedLog, attempts, failedLog,
                   consumerFault>>

\* reset(): the lock is released.
ResetReturn ==
    /\ lock = "reset"
    /\ surfaceIdx = Len(FieldOrder)
    /\ lock' = "free"
    /\ surfaceIdx' = 0
    /\ UNCHANGED <<runnerVars, walletVars, tagVars, stopVars, snap, snapReturned,
                   resetCalled>>

\* The loop, which increments the counters without taking Stats.lock, beside
\* a context that calls snapshot() and reset().
NextStats ==
    \/ RunnerNext
    \/ SnapshotEnter
    \/ SnapshotRead
    \/ SnapshotReturn
    \/ ResetEnter
    \/ ResetWrite
    \/ ResetReturn

\* ---- generate_user_tags applied to feature mappings directly ----

\* lp_features mappings: the keys generate_user_tags reads, with values on
\* both sides of every threshold (a missing key reads as 0).
LpFeatureSets ==
    [total_deposit_usd : {0, 1, 1000, 1001, 10000, 10001, 100000, 100001},
     avg_hold_time_days : {RInt(0 - 100), RInt(0), R(1, 2), RInt(30), RInt(31),
                           RInt(90), RInt(91)},
     unique_pools : {0, 3, 4}]

\* swap_features mappings, likewise.
SwapFeatureSets ==
    [total_swap_volume : {0, 1, 5000, 5001, 50000, 50001, 500000, 500001},
     num_swaps : {0, 20, 21, 100, 101},
     token_diversity_score : {0, 100, 105, 150}]

NoTags == [called |-> FALSE, value |-> <<>>]

TagsIdle ==
    /\ lp_features = [total_deposit_usd |-> 0, avg_hold_time_days |-> RInt(0),
                      unique_pools |-> 0]
    /\ swap_features = [total_swap_volume |-> 0, num_swaps |-> 0,
                        token_diversity_score |-> 0]
    /\ user_tags = NoTags

InitTags ==
    /\ RunnerInit
    /\ WalletIdle
    /\ StopIdle
    /\ SurfaceIdle
    /\ lp_features \in LpFeatureSets
    /\ swap_features \in SwapFeatureSets
    /\ user_tags = NoTags

\* tags = generate_user_tags(lp_features, swap_features)
CallGenerateUserTags ==
    /\ ~user_tags.called
    /\ user_tags' = [called |-> TRUE,
                     value |-> GenerateUserTags(lp_features, swap_features)]
    /\ UNCHANGED <<runnerVars, walletVars, stopVars, surfaceVars, lp_features,
                   swap_features>>

NextTags == CallGenerateUserTags

SpecTags == InitTags /\ [][NextTags]_vars

Init == RunnerInit /\ WalletIdle /\ TagsIdle /\ StopIdle /\ SurfaceIdle

SpecStop == Init /\ [][NextStop]_vars

SpecStats == Init /\ [][NextStats]_vars

Next == RunnerNext

Spec == Init /\ [][Next]_vars

\* The pipeline alone, on every wallet message of the bounded set.
InitWallet == RunnerInit /\ WalletInit /\ TagsIdle /\ StopIdle /\ SurfaceIdle

NextWallet == RunFirst \/ RunAgain

SpecWallet == InitWallet /\ [][NextWallet]_vars

\* ---- the pipeline on transactions chosen for the feature rules ----

\* Transactions for the normalizer and holding-time rules: swaps whose legs
\* differ or are missing, deposits and withdraws in two pools with equal and
\* with ordered timestamps, and an unknown action that carries token amounts.
FeatureUniverse ==
    { Tx("swap",     80 * Day, "poolB", Leg(1000, "USDC"), Leg(900, "WETH")),
      Tx("swap",     81 * Day, "poolA", NullLeg, Leg(700, "WETH")),
      Tx("deposit",  90 * Day, "poolA", Leg(250, "USDC"), Leg(250, "WETH")),
      Tx("deposit",  95 * Day, "poolA", Leg(0, "USDC"), Leg(300, "WETH")),
      Tx("withdraw", 95 * Day, "poolB", Leg(100, "USDC"), NullLeg),
      Tx("withdraw", 97 * Day, "poolA", Leg(50, "USDC"), Leg(50, "WETH")),
      Tx("stake",    60 * Day, "poolC", Leg(400, "USDC"), Leg(400, "WETH")) }

FeatureMessages ==
    {WalletMessage(l, txs) : l \in Layouts, txs \in SeqsUpTo(FeatureUniverse, MaxTx)}

InitFeatures ==
    /\ RunnerInit
    /\ TagsIdle
    /\ StopIdle
    /\ SurfaceIdle
    /\ wallet_data \in FeatureMessages
    /\ now1 = 0
    /\ now2 = 0
    /\ result1 = NotRun
    /\ result2 = NotRun
    /\ complete = NotCalled

SpecFeatures == InitFeatures /\ [][NextWallet]_vars

\* The stream runner under the scheduling the event loop gives: a coroutine
\* that can resume does resume, and the transport resolves every send
\* (delivery, or an error or timeout).  Nothing obliges the environment to
\* publish messages or the consumer to fault.
Fairness ==
    /\ WF_vars(Consume)
    /\ WF_vars(ScoreReturn \/ ScoreRaise)
    /\ WF_vars(SendStart)
    /\ WF_vars(Deliver \/ TransportFail)
    /\ WF_vars(SendAck)
    /\ WF_vars(SendFail)
    /\ WF_vars(CountScored)

FairSpec == Init /\ [][Next]_vars /\ Fairness

(***************************************************************************)
(* Properties                                                              *)
(***************************************************************************)

Last(s) == s[Len(s)]
PosIn(log, x) == CHOOSE i \in DOMAIN log : log[i] = x
LoopIdle == pc \in {"await_msg", "done"}

\* C1: whenever scoring a consumed message raises, total_failed is
\* incremented and a failure payload for that message is handed to the
\* producer before the next message is consumed: every consumed message,
\* scored or failed, leads to one produce attempt.
C1_FailureProduced ==
    /\ stats.total_failed = Len(failedLog)
    /\ \A i \in DOMAIN failedLog : failedLog[i] \in Range(attempts)
    /\ LoopIdle => Len(attempts) = Len(consumedLog)

\* Message number n (in consumption order) has just failed scoring and the
\* loop is back at the consumer.
JustFailed(n) ==
    /\ pc = "await_msg"
    /\ Len(consumedLog) = n
    /\ failedLog # <<>>
    /\ Last(failedLog) = consumedLog[n]

\* C2: an exception raised while scoring a message never ends the consume
\* loop: the loop ends only from its wait on the consumer, by a fault of the
\* consumer itself, and after a scoring failure an available next message
\* is eventually consumed unless the consumer faults.
C2_Isolation ==
    /\ [][(pc # "done" /\ pc' = "done")
            => (pc = "await_msg" /\ ~consumerFault /\ consumerFault')]_vars
    /\ \A n \in 1..MaxMsgs :
          (JustFailed(n) /\ inbound # <<>>) ~> (Len(consumedLog) > n \/ consumerFault)

\* C2 witness: a message failed scoring and a later message was consumed.
C2_Witness ==
    /\ failedLog # <<>>
    /\ Len(consumedLog) >= 2
    /\ failedLog[1] = consumedLog[1]

\* C3: outbound order equals inbound consumption order, one record per
\* message and one send at a time: the records on the produce topic appear
\* in the relative order their messages were consumed, and no message is
\* being consumed or scored while an earlier send is unresolved.
C3_OrderPreserved ==
    /\ \A i, j \in DOMAIN outbound :
          i < j => PosIn(consumedLog, outbound[i].offset)
                     < PosIn(consumedLog, outbound[j].offset)
    /\ pc \in {"await_msg", "score", "send"} => inflight = {}
    /\ Cardinality(inflight) <= 1

\* C3 witness: two records were delivered and a third message is being scored.
C3_Witness == Len(outbound) >= 2 /\ pc = "score"

\* C4: at quiescence total_scored + total_failed = total_consumed, for every
\* mix of scoring successes, scoring failures and send failures.
C4_ScoredPlusFailed ==
    Quiescent => stats.total_scored + stats.total_failed = stats.total_consumed

\* C4 witness: quiescent after a scoring failure, a delivered send and a
\* failed send.
C4_Witness ==
    /\ Quiescent
    /\ stats.total_failed >= 1
    /\ stats.total_scored >= 2
    /\ stats.total_produced = 1

\* C5: at quiescence total_produced = total_consumed: every consumed message
\* was counted as produced, including the ones whose scoring failed.
C5_ProducedEqualsConsumed ==
    Quiescent => stats.total_produced = stats.total_consumed

\* Exactly one element of the pair process_wallet returned is populated.
PairExactlyOne(r) == Populated(r.success) # Populated(r.failure)

\* C6: for every wallet message exactly one of the success and the failure
\* payload is populated, and the outbound message for the wallet contains
\* exactly one of the keys zscore and error.
C6_ExactlyOne ==
    /\ (result1 # NotRun /\ ~result1.raised) => PairExactlyOne(result1)
    /\ \A i \in DOMAIN outbound :
          ("zscore" \in DOMAIN outbound[i].value) # ("error" \in DOMAIN outbound[i].value)

\* The message is a mapping with no transaction in any dexes group.
NoDexInput(wd) ==
    /\ wd.mapping
    /\ \A i \in DOMAIN wd.data :
          wd.data[i].protocolType # "dexes" \/ wd.data[i].transactions = <<>>

\* C7: a message whose data is empty, has no dexes group, or has only dexes
\* groups without transactions gets the failure payload "No valid
\* transactions found" with transaction_count 0 and no score, the same
\* payload an empty message gets.
C7_NoValidTransactions ==
    (result1 # NotRun /\ NoDexInput(wallet_data)) =>
        /\ ~result1.raised
        /\ ~Populated(result1.success)
        /\ Populated(result1.failure)
        /\ result1.failure.body.error = <<"No valid transactions found">>
        /\ result1.failure.body.categories[1].transaction_count = 0
        /\ Keys(result1.failure) \cap {"zscore", "score"} = {}
        /\ DOMAIN result1.failure.body.categories[1] \cap {"score", "features"} = {}
        /\ result1 = ProcessWallet(WalletMessage("no_groups", <<>>), now1)

\* C7 witness: a message whose only transactions sit in a non-DEX group was
\* processed.
C7_Witness ==
    /\ result1 # NotRun
    /\ NoDexInput(wallet_data)
    /\ \E i \in DOMAIN wallet_data.data : wallet_data.data[i].transactions # <<>>

\* C8: process_wallet never propagates an exception: for every input,
\* malformed ones included, an exception raised inside gives a returned
\* failure payload with the exception message and transaction_count 0.
C8_NeverPropagates ==
    result1 # NotRun =>
        /\ ~result1.raised
        /\ PreprocessDexTransactions(wallet_data).raised =>
              /\ Populated(result1.failure)
              /\ result1.failure.body.categories[1].error
                    = <<PreprocessDexTransactions(wallet_data).error>>
              /\ result1.failure.body.categories[1].transaction_count = 0

\* The score of a success payload.
ScoreOf(r) == r.success.body.categories[1].score
Succeeded(r) == r # NotRun /\ ~r.raised /\ Populated(r.success)

\* C9: for every wallet message that yields a success payload, final_score
\* lies in [0, 1000].
C9_ScoreInRange ==
    Succeeded(result1) =>
        RLe(RInt(0), ScoreOf(result1)) /\ RLe(ScoreOf(result1), RInt(1000))

\* C10 (as claimed): two runs on an identical message, at any two points in
\* time, yield an identical final_score.
C10_Deterministic ==
    (Succeeded(result1) /\ Succeeded(result2)) => ScoreOf(result1) = ScoreOf(result2)

\* The transactions of the message's dexes groups, as a set.
DexTxSet(wd) ==
    UNION { Range(wd.data[i].transactions) :
                i \in {k \in DOMAIN wd.data : wd.data[k].protocolType = "dexes"} }

\* Every deposit of the message has a withdraw with a strictly later timestamp.
AllDepositsMatched(wd) ==
    \A d \in {x \in DexTxSet(wd) : x.action = "deposit"} :
        \E w \in {x \in DexTxSet(wd) : x.action = "withdraw"} :
            w.timestamp > d.timestamp

\* C10 (amended): when every deposit row has a withdraw row with a strictly
\* later timestamp (or there is no deposit row), two runs on an identical
\* message at any two points in time yield an identical final_score.
C10_DeterministicWhenMatched ==
    (Succeeded(result1) /\ result2 # NotRun /\ AllDepositsMatched(wallet_data)) =>
        Succeeded(result2) /\ ScoreOf(result1) = ScoreOf(result2)

\* C10 witness: a message with a deposit, all deposits matched by a later
\* withdraw, was scored at two different times.
C10_Witness ==
    /\ Succeeded(result1)
    /\ Succeeded(result2)
    /\ now1 # now2
    /\ AllDepositsMatched(wallet_data)
    /\ \E d \in DexTxSet(wallet_data) : d.action = "deposit"

\* process_wallet_complete returned a score (the row set was not empty).
Scored == complete.called /\ ~complete.raised /\ complete.value.error = NoError

Within(x, lo, hi) == RLe(RInt(lo), x) /\ RLe(x, RInt(hi))

\* C11: every sub-score component is non-negative and clamped at its cap:
\* LP volume in [0,300], frequency in [0,200], retention in [0,250], holding
\* in [0,150], diversity in [0,100]; swap volume in [0,250], frequency in
\* [0,200], diversity in [0,150], activity in [0,100], pool diversity in
\* [0,100].
C11_ComponentsCapped ==
    Scored =>
        LET lpb == complete.value.lp_breakdown
            swb == complete.value.swap_breakdown
        IN  /\ Within(lpb.volume_score, 0, 300)
            /\ Within(lpb.frequency_score, 0, 200)
            /\ Within(lpb.retention_score, 0, 250)
            /\ Within(lpb.holding_score, 0, 150)
            /\ Within(lpb.diversity_score, 0, 100)
            /\ Within(swb.volume_score, 0, 250)
            /\ Within(swb.frequency_score, 0, 200)
            /\ Within(swb.diversity_score, 0, 150)
            /\ Within(swb.activity_score, 0, 100)
            /\ Within(swb.pool_diversity_score, 0, 100)

\* C18: with reset never called, in every state of the running loop
\* total_scored + total_failed <= total_consumed <= total_scored +
\* total_failed + 1 and total_produced <= total_consumed; a failed send leaves
\* total_produced as it was while the message is counted in total_scored, so
\* when the loop is between messages total_produced <= total_scored, the
\* difference being the sends that failed.
C18_CounterInvariant ==
    /\ stats.total_scored + stats.total_failed <= stats.total_consumed
    /\ stats.total_consumed <= stats.total_scored + stats.total_failed + 1
    /\ stats.total_produced <= stats.total_consumed
    /\ stats.total_produced <= Len(outbound)
    /\ pc \in {"await_msg", "done"} =>
        /\ stats.total_produced <= stats.total_scored
        /\ stats.total_scored = Len(attempts)
        /\ stats.total_produced = Len(outbound)
        /\ stats.total_scored + stats.total_failed = stats.total_consumed

\* The loop is between messages after a send that failed: a message is
\* counted as scored and not as produced.
C18_Witness ==
    /\ Quiescent
    /\ stats.total_produced < stats.total_scored
    /\ stats.total_failed > 0

\* The normalized row set is not empty and holds no deposit row.
NoDepositRows ==
    /\ Scored
    /\ \A i \in DOMAIN complete.value.df : complete.value.df[i].action # "deposit"

\* C19: for a non-empty normalized row set without deposit rows,
\* withdraw_ratio is 0 and the LP retention component is the full 250, so
\* the pipeline returns a success payload with lp_score >= 250 and
\* final_score >= 150.
C19_NoDepositFloor ==
    NoDepositRows =>
        /\ complete.value.features.lp.withdraw_ratio = RInt(0)
        /\ complete.value.lp_breakdown.retention_score = RInt(250)
        /\ RLe(RInt(250), complete.value.features.lp_score)
        /\ RLe(RInt(150), complete.value.final_score)
        /\ Succeeded(result1)
        /\ IsNone(result1.failure)
        /\ ScoreOf(result1) = complete.value.final_score

\* A wallet that only withdrew (a positive amount) was scored.
C19_Witness ==
    /\ NoDepositRows
    /\ complete.value.features.lp.total_withdraw_usd > 0
    /\ complete.value.features.swap.num_swaps = 0

\* The category of each tag generate_user_tags can emit.
TagCategory ==
    [t \in {"Whale LP", "Large LP", "Medium LP", "Small LP"} |-> 1]
    @@ [t \in {"Long-term Holder", "Medium-term Holder", "Short-term Holder"} |-> 2]
    @@ [t \in {"Whale Trader", "Large Trader", "Active Trader", "Casual Trader"} |-> 3]
    @@ [t \in {"High Frequency Trader", "Regular Trader"} |-> 4]
    @@ [t \in {"Diversified Trader", "Multi-Pool LP"} |-> 5]

\* C12: for all LP and swap feature sets generate_user_tags returns at most
\* 5 tags, no tag twice; each of the five categories (LP size, holding, swap
\* size, frequency, diversity) contributes at most one tag, in that order.
C12_TagsBounded ==
    user_tags.called =>
        LET tags == user_tags.value
        IN  /\ Len(tags) <= 5
            /\ \A i \in DOMAIN tags : tags[i] \in DOMAIN TagCategory
            /\ \A i, j \in DOMAIN tags : i # j => tags[i] # tags[j]
            /\ \A i, j \in DOMAIN tags :
                  i < j => TagCategory[tags[i]] < TagCategory[tags[j]]

\* All five categories contributed a tag, and both diversity conditions held.
C12_Witness ==
    /\ user_tags.called
    /\ Len(user_tags.value) = 5
    /\ swap_features.token_diversity_score > 100
    /\ lp_features.unique_pools > 3

\* C13: processing SAMPLE_WALLET_MESSAGE gives a success payload, not a
\* failure, whose categories[0].features equal EXPECTED_FEATURES (the values
\* are whole numbers, so "within 0.01" is equality).
C13_SampleFeatures ==
    (wallet_data = SAMPLE_WALLET_MESSAGE /\ result1 # NotRun) =>
        /\ Succeeded(result1)
        /\ IsNone(result1.failure)
        /\ result1.success.body.categories[1].features = EXPECTED_FEATURES

\* ---- C16, C17: the features against the rules stated on the raw input ----

RECURSIVE DexInput(_)
\* The transactions of the message that sit in a "dexes" group, in order.
DexInput(data) ==
    IF data = <<>> THEN <<>>
    ELSE LET g == data[Len(data)]
         IN  DexInput(SubSeq(data, 1, Len(data) - 1))
                \o (IF g.protocolType = "dexes" THEN g.transactions ELSE <<>>)

\* The USD amount of a token sub-object; missing or null counts as 0.
Usd(leg) == IF leg.null THEN 0 ELSE leg.amountUSD

RECURSIVE TotalOf(_, _)
\* The sum of both legs over the transactions of txs with the given action.
TotalOf(txs, action) ==
    IF txs = <<>> THEN 0
    ELSE (IF Head(txs).action = action
          THEN Usd(Head(txs).legA) + Usd(Head(txs).legB) ELSE 0)
            + TotalOf(Tail(txs), action)

RECURSIVE SwapTotalOf(_)
\* The sum over the swaps of txs of the larger leg.
SwapTotalOf(txs) ==
    IF txs = <<>> THEN 0
    ELSE (IF Head(txs).action # "swap" THEN 0
          ELSE IF Usd(Head(txs).legA) > Usd(Head(txs).legB)
               THEN Usd(Head(txs).legA) ELSE Usd(Head(txs).legB))
            + SwapTotalOf(Tail(txs))

HeldSeconds(rows, d, current_time) ==
    LET later == {i \in DOMAIN rows :
                    rows[i].action = "withdraw" /\ rows[i].timestamp > rows[d].timestamp}
    IN  IF later = {} THEN current_time - rows[d].timestamp
        ELSE LET w == CHOOSE i \in later :
                        \A j \in later : rows[i].timestamp <= rows[j].timestamp
             IN  rows[w].timestamp - rows[d].timestamp

RECURSIVE SumOver(_, _)
SumOver(f, S) ==
    IF S = {} THEN 0
    ELSE LET x == CHOOSE y \in S : TRUE IN f[x] + SumOver(f, S \ {x})

\* C17: avg_hold_time_days is the mean over all deposit rows of
\* (t_w - t_d)/86400, t_w being the smallest withdraw timestamp strictly
\* greater than t_d over the withdraws of all pools, or of
\* (current time - t_d)/86400 when there is no such withdraw; it is 0 when
\* there are no deposits.
C17_AvgHoldTime ==
    Scored =>
        LET rows == complete.value.df
            deps == {i \in DOMAIN rows : rows[i].action = "deposit"}
            held == [i \in deps |-> HeldSeconds(rows, i, now1)]
            avg == complete.value.features.lp.avg_hold_time_days
        IN  IF deps = {} THEN avg = RInt(0)
            ELSE avg = R(SumOver(held, deps), 86400 * Cardinality(deps))

\* Scored rows with a withdraw that is strictly later than one deposit, in
\* another pool, and at the same timestamp as another deposit.
C17_Witness ==
    /\ Scored
    /\ \E w, d, e \in Range(complete.value.df) :
          /\ w.action = "withdraw" /\ d.action = "deposit" /\ e.action = "deposit"
          /\ w.timestamp > d.timestamp
          /\ w.pool_id # d.pool_id
          /\ w.timestamp = e.timestamp

Bump(t, field) == [t EXCEPT ![field] = @ + 1]

\* The counter values one consumed message takes the loop through, from t,
\* as far as the logs have settled what happened to it.
StepsOf(t, offset) ==
    LET t1 == Bump(t, "total_consumed")
    IN  IF \E i \in DOMAIN failedLog : failedLog[i] = offset
        THEN <<t1, Bump(t1, "total_failed")>>
        ELSE IF \E i \in DOMAIN outbound : outbound[i].offset = offset
        THEN <<t1, Bump(t1, "total_produced"),
               Bump(Bump(t1, "total_produced"), "total_scored")>>
        ELSE <<t1, Bump(t1, "total_scored")>>

RECURSIVE Replay(_, _)
Replay(log, t) ==
    IF log = <<>> THEN {t}
    ELSE LET steps == StepsOf(t, Head(log))
         IN  {t} \cup Range(steps) \cup Replay(Tail(log), steps[Len(steps)])

Total(t) == t.total_consumed + t.total_scored + t.total_failed + t.total_produced

\* The counter values the loop has held so far (reset never called).
PassedThrough ==
    {t \in Replay(consumedLog, StatsInit) : Total(t) <= Total(stats)}

\* C15: access to the counters is serialized between the loop and
\* snapshot()/reset(): a snapshot never shows a combination of counter values
\* the loop did not pass through, and no increment is applied to a
\* half-reset state (while reset() holds the lock, the counters it has
\* zeroed stay 0).
C15_Serialized ==
    /\ (snapReturned /\ ~resetCalled) => snap \in PassedThrough
    /\ lock = "reset" =>
          \A k \in 1..surfaceIdx : stats[FieldOrder[k]] = 0

\* With no other context running, the counters are always a value of
\* PassedThrough.
LoopPassesThrough == ~resetCalled => stats \in PassedThrough

====
